---- MODULE Spec2Model ----
(***************************************************************************)
(* A model of czi2tif: the command line entry point (czi2tif.py: main) and *)
(* the export pipeline of read.py (process_file, process_czi, process_lif, *)
(* get_resolution and the three plane-assembly strategies), and the logger *)
(* set-up of logging.py (setup_logging).                                   *)
(*                                                                         *)
(* The container reader, the flat-image reader and the image writer are    *)
(* external libraries.  Every call into them is one step of the model, and *)
(* appended to `log`.  Opening a container and reading from it may fail    *)
(* (the failure is an input of the step); creating the output directory    *)
(* and writing complete normally, and so does creating the log file.       *)
(***************************************************************************)
EXTENDS Integers, Sequences, FiniteSets, TLC

VARIABLES
    api,          \* the function the run enters: "main", "process_file",
                  \* "process_file_twice" (two runs of process_file on one
                  \* container) or "setup_logging"
    input,        \* the arguments of the run and the files they name
    mainpc,       \* position of main
    files,        \* main: the list `files`
    fi,           \* main: the loop counter i of enumerate(files, 1)
    results,      \* every process_file call that has ended, in call order:
                  \* its file and how it ended ("ok" or the exception raised)
    pc,           \* position inside process_file / process_czi / process_lif
    cur,          \* process_file: the file being processed
    resolution,   \* process_czi, process_lif: the local `resolution`
    entry_n,      \* process_czi: entry_indexes = range(entry_n)
    entry_index,  \* process_czi: loop variable; process_lif: image number
    loop,         \* the read loops of the strategy that is running
    img,          \* the array being assembled, as the reads it is built from
    arr,          \* the axes of that array once it is assembled
    log,          \* the calls into the external libraries so far
    logger,       \* the logger named "czi2tif": handlers, level, propagate
    logcalls,     \* how many times setup_logging has been called
    logargs       \* the arguments of the latest setup_logging call

vars == <<api, input, mainpc, files, fi, results, pc, cur, resolution,
          entry_n, entry_index, loop, img, arr, log, logger, logcalls,
          logargs>>

-----------------------------------------------------------------------------
(* Bounds of the model.                                                    *)

MaxRows == 2      \* rows of a shape table
MaxScenes == 3    \* largest scene count a shape row declares
MaxCount == 2     \* largest depth / channel / time count of a container
MaxFiles == 2     \* files of an input directory
MaxImages == 2    \* images of a .lif container
MaxCalls == 3     \* calls of setup_logging in a row

-----------------------------------------------------------------------------
(* Text.  A string is a sequence of one-character strings, so that         *)
(* formatting and concatenation are computed, not assumed injective.       *)

Digits == <<"0", "1", "2", "3", "4", "5", "6", "7", "8", "9">>

RECURSIVE StrOfNat(_)
\* str(n) for n >= 0, as the f-string of process_czi formats entry_index
StrOfNat(n) ==
    IF n < 10 THEN <<Digits[n + 1]>>
    ELSE StrOfNat(n \div 10) \o <<Digits[(n % 10) + 1]>>

\* str.lower() on the suffixes of the model
Lower(ext) ==
    IF ext = <<".", "C", "Z", "I">> THEN <<".", "c", "z", "i">>
    ELSE IF ext = <<".", "L", "I", "F">> THEN <<".", "l", "i", "f">>
    ELSE ext

\* `match in f.name`: needle occurs in hay as a contiguous substring
Contains(hay, needle) ==
    \E k \in 0..(Len(hay) - Len(needle)) :
        \A j \in 1..Len(needle) : hay[k + j] = needle[j]

\* Path.name and Path.stem of a file of the model
NameOf(f) == f.stem \o f.ext

-----------------------------------------------------------------------------
(* Numbers.  Distances are held in nanometres (value_in_metres * 1e9), and *)
(* a calibration component is the exact rational 1 / (metres * 1e6),       *)
(* kept in lowest terms with a positive denominator.                       *)

Abs(x) == IF x < 0 THEN -x ELSE x

RECURSIVE Gcd(_, _)
Gcd(a, b) == IF b = 0 THEN a ELSE Gcd(b, a % b)

Rat(n, d) ==
    LET g == Gcd(Abs(n), Abs(d))
        s == IF d < 0 THEN -1 ELSE 1
    IN [n |-> (s * n) \div g, d |-> (s * d) \div g]

One == Rat(1, 1)

\* 1 / (res * 1e6) for res = nm nanometres, nm # 0
PxPerMicron(nm) == Rat(1000, nm)

-----------------------------------------------------------------------------
(* get_resolution.  What root.find(".//Distance[@Id='A']/Value") gives:    *)
(*   k = "none"    no such element (find returns None)                     *)
(*   k = "notext"  the element has no text (text is None)                  *)
(*   k = "bad"     the text is not the text of a number                    *)
(*   k = "num"     the text is the number v (nanometres)                   *)

NoElem == [k |-> "none", v |-> 0]
NoText == [k |-> "notext", v |-> 0]
BadText == [k |-> "bad", v |-> 0]
Num(nm) == [k |-> "num", v |-> nm]

Raised(e) == [exc |-> e, val |-> <<>>]
Returned(v) == [exc |-> "none", val |-> v]

\* a variant of ConvertXY that treats non-numeric text like the Z record
\* does, falling back to 1 instead of raising
ConvertXYLenient(el) ==
    IF el.k = "none" THEN Raised("AttributeError")
    ELSE IF el.k = "notext" \/ el.k = "bad" THEN Returned(One)
    ELSE IF el.v = 0 THEN Raised("ZeroDivisionError")
    ELSE Returned(PxPerMicron(el.v))

\* float(distance_element.text), then 1 / (res * 1e6), with no handler
\* around it (the X and the Y record)
ConvertXY(el) ==
    IF el.k = "none" THEN Raised("AttributeError")
    ELSE IF el.k = "notext" THEN Raised("TypeError")
    ELSE IF el.k = "bad" THEN Raised("ValueError")
    ELSE IF el.v = 0 THEN Raised("ZeroDivisionError")
    ELSE Returned(PxPerMicron(el.v))

\* the Z record: the try block catches AttributeError, TypeError, ValueError
ConvertZ(rx, ry, el) ==
    IF el.k = "none" \/ el.k = "notext" THEN Returned(<<rx, ry>>)
    ELSE IF el.k = "bad" THEN Returned(<<rx, ry>>)
    ELSE IF el.v = 0 THEN Raised("ZeroDivisionError")
    ELSE Returned(<<rx, ry, PxPerMicron(el.v)>>)

\* a variant of get_resolution that falls back to the default only when
\* neither the X nor the Y record is there
get_resolution_strict(meta) ==
    IF meta.X.k = "none" /\ meta.Y.k = "none" THEN Returned(<<One, One, One>>)
    ELSE LET x == ConvertXY(meta.X) IN
         IF x.exc # "none" THEN x
         ELSE LET y == ConvertXY(meta.Y) IN
              IF y.exc # "none" THEN y
              ELSE ConvertZ(x.val, y.val, meta.Z)

\* a variant of get_resolution that also falls back to the default when
\* the Y record is not there
get_resolution_without_y(meta) ==
    IF meta.X.k = "none" \/ meta.Y.k = "none" THEN Returned(<<One, One, One>>)
    ELSE LET x == ConvertXY(meta.X) IN
         IF x.exc # "none" THEN x
         ELSE LET y == ConvertXY(meta.Y) IN
              IF y.exc # "none" THEN y
              ELSE ConvertZ(x.val, y.val, meta.Z)

get_resolution(meta) ==
    IF meta.X.k = "none" THEN Returned(<<One, One, One>>)
    ELSE LET x == ConvertXY(meta.X) IN
         IF x.exc # "none" THEN x
         ELSE LET y == ConvertXY(meta.Y) IN
              IF y.exc # "none" THEN y
              ELSE ConvertZ(x.val, y.val, meta.Z)

-----------------------------------------------------------------------------
(* logging.py: setup_logging and the logger "czi2tif".                     *)

\* the numeric levels of the logging module
Levels == [DEBUG |-> 10, INFO |-> 20, WARNING |-> 30, ERROR |-> 40,
           CRITICAL |-> 50]

\* str.upper() on the level names of the model
Upper(name) == IF name = "debug" THEN "DEBUG" ELSE name

\* getattr(logging, log_level.upper(), logging.INFO)
NumericLevel(name) ==
    IF Upper(name) \in DOMAIN Levels THEN Levels[Upper(name)] ELSE Levels.INFO

NoPath == <<>>

\* Path.cwd() / "czi2tif.log"
DefaultLogFile == <<"c", "z", "i", "2", "t", "i", "f", ".", "l", "o", "g">>

Handler(kind, level, file) == [kind |-> kind, level |-> level, file |-> file]

\* a logger no one has configured: no handlers, NOTSET, propagating
FreshLogger == [handlers |-> <<>>, level |-> 0, propagate |-> TRUE]

LogArgs(level, file, console, fileout, quiet) ==
    [log_level |-> level, log_file |-> file, console_output |-> console,
     file_output |-> fileout, quiet |-> quiet]

\* a variant of setup_logging that keeps the handlers it finds
setup_logging_keep(lg, a) ==
    IF a.quiet
    THEN [handlers |-> Append(lg.handlers, Handler("null", 0, NoPath)),
          level |-> Levels.CRITICAL + 1, propagate |-> FALSE]
    ELSE LET n == NumericLevel(a.log_level)
             f == IF a.log_file = NoPath THEN DefaultLogFile ELSE a.log_file
         IN [handlers |->
                lg.handlers
                \o (IF a.console_output THEN <<Handler("console", n, NoPath)>>
                    ELSE <<>>)
                \o (IF a.file_output THEN <<Handler("file", n, f)>> ELSE <<>>),
             level |-> n, propagate |-> FALSE]

\* setup_logging, lines 9-81: the logger after the call
setup_logging(lg, a) ==
    IF a.quiet
    THEN [handlers |-> <<Handler("null", 0, NoPath)>>,
          level |-> Levels.CRITICAL + 1, propagate |-> FALSE]
    ELSE LET n == NumericLevel(a.log_level)
             f == IF a.log_file = NoPath THEN DefaultLogFile ELSE a.log_file
         IN [handlers |->
                (IF a.console_output THEN <<Handler("console", n, NoPath)>>
                 ELSE <<>>)
                \o (IF a.file_output THEN <<Handler("file", n, f)>> ELSE <<>>),
             level |-> n, propagate |-> FALSE]

-----------------------------------------------------------------------------
(* Axis predicates on czi.dims, held as the set of its axis letters.       *)

has_scenes(czi_dims) == "S" \in czi_dims
has_mosaics(czi_dims) == "M" \in czi_dims
has_stacks(czi_dims) == "Z" \in czi_dims

(* A shape row maps an axis letter to a (start, end) pair; the code reads  *)
(* only the last component, row[axis][-1].  A row of the model holds that  *)
(* component per axis, or Absent when the row has no such key.             *)

Absent == -1

Row(s, m, z, c) == [S |-> s, M |-> m, Z |-> z, C |-> c]

-----------------------------------------------------------------------------
(* process_czi: classification (read.py lines 174-203).                    *)

\* czi_shape[i][axis][-1]: IndexError without row i, KeyError without the key
Lookup(shape, i, axis) ==
    IF i + 1 > Len(shape) THEN Raised("IndexError")
    ELSE IF shape[i + 1][axis] = Absent THEN Raised("KeyError")
    ELSE Returned(shape[i + 1][axis])

\* the flag is_homogenous once lines 174-185 have run without raising
is_homogenous(czi_dims, czi_shape) ==
    ~ ( /\ has_scenes(czi_dims)
        /\ Len(czi_shape) > 1
        /\ Len(czi_shape) # czi_shape[1].S )

\* a variant of EntryIndexes that finds no entries in an empty table
EntryIndexesOrNone(czi_dims, czi_shape) ==
    IF Len(czi_shape) = 0 THEN Returned(0)
    ELSE IF has_scenes(czi_dims) /\ Lookup(czi_shape, 0, "S").exc # "none"
    THEN Lookup(czi_shape, 0, "S")
    ELSE IF has_scenes(czi_dims) /\ is_homogenous(czi_dims, czi_shape)
    THEN Lookup(czi_shape, 0, "S")
    ELSE Returned(Len(czi_shape))

\* lines 174-203: the number n with entry_indexes = range(n), or the
\* exception raised on the way
EntryIndexes(czi_dims, czi_shape) ==
    IF has_scenes(czi_dims) /\ Len(czi_shape) >= 1
          /\ Lookup(czi_shape, 0, "S").exc # "none"
    THEN Lookup(czi_shape, 0, "S")                          \* lines 177, 180
    ELSE IF has_scenes(czi_dims) /\ is_homogenous(czi_dims, czi_shape)
    THEN Lookup(czi_shape, 0, "S")                          \* line 201
    ELSE Returned(Len(czi_shape))                           \* line 203

\* range(n) is empty for n <= 0
RangeLen(n) == IF n < 0 THEN 0 ELSE n

-----------------------------------------------------------------------------
(* The read loops of one entry.  `outer` and `inner` are the trip counts   *)
(* of the two nested loops, i and j their counters.                        *)

NoLoop == [kind |-> "none", outer |-> 0, inner |-> 0, i |-> 0, j |-> 0,
           depth |-> FALSE]

Loop(kind, outer, inner, depth) ==
    [kind |-> kind, outer |-> outer, inner |-> inner, i |-> 0, j |-> 0,
     depth |-> depth]

\* lines 206-209: is_mosaic of the entry, or the exception raised
IsMosaic(czi_dims, czi_shape, e) ==
    IF has_mosaics(czi_dims)
    THEN LET m == Lookup(czi_shape, e, "M")
         IN IF m.exc # "none" THEN m ELSE Returned(m.val > 0)
    ELSE Returned(FALSE)

\* get_stack_data, lines 105-106: the trip counts come from row 0
StackLoop(czi_shape) ==
    LET z == Lookup(czi_shape, 0, "Z")
        c == Lookup(czi_shape, 0, "C")
    IN IF z.exc # "none" THEN z
       ELSE IF c.exc # "none" THEN c
       ELSE Returned(Loop("stack", z.val, c.val, TRUE))

\* get_mosaic_data, lines 130-133: the trip counts come from the entry's row;
\* the depth count is looked up inside the channel loop
MosaicLoop(czi_dims, czi_shape, e) ==
    LET c == Lookup(czi_shape, e, "C")
        z == Lookup(czi_shape, e, "Z")
    IN IF c.exc # "none" THEN c
       ELSE IF ~ has_stacks(czi_dims) THEN Returned(Loop("mosaic", c.val, 1, FALSE))
       ELSE IF c.val >= 1 /\ z.exc # "none" THEN z
       ELSE Returned(Loop("mosaic", c.val, IF c.val >= 1 THEN z.val ELSE 0, TRUE))

\* lines 211-216 and 226-228: the strategy of a non-mosaic entry
PlainLoop(czi_dims, czi_shape) ==
    IF has_stacks(czi_dims) THEN StackLoop(czi_shape)
    ELSE Returned(Loop("scene", 1, 1, FALSE))

\* the axis selectors of the read the loops of `l` are about to issue
NoSel == [S |-> Absent, Z |-> Absent, C |-> Absent]

\* a variant of Region that asks for the bounding box of the entry
RegionOfEntry(l, e) == IF l.kind = "mosaic" THEN e ELSE Absent

\* which of the declared bounding boxes a read asks for: bboxes[0],
\* lines 135 and 143
Region(l, e) == IF l.kind = "mosaic" THEN 0 ELSE Absent

\* scale_factor=1 of read_mosaic, lines 136 and 144
ScaleFactor(l) == IF l.kind = "mosaic" THEN 1 ELSE Absent

Selectors(l, e) ==
    IF l.kind = "scene" THEN [S |-> e, Z |-> Absent, C |-> Absent]       \* line 99
    ELSE IF l.kind = "stack" THEN [S |-> e, Z |-> l.i, C |-> l.j]        \* line 113
    ELSE IF l.depth THEN [S |-> Absent, Z |-> l.j, C |-> l.i]            \* line 134
    ELSE [S |-> Absent, Z |-> Absent, C |-> l.i]                         \* line 142

\* the loops after one more read
Advance(l) ==
    IF l.j + 1 < l.inner THEN [l EXCEPT !.j = l.j + 1]
    ELSE [l EXCEPT !.i = l.i + 1, !.j = 0]

\* a variant of Finished that leaves the outer loop one iteration early
FinishedEarly(l) == l.i + 1 >= l.outer \/ l.inner = 0

Finished(l) == l.i >= l.outer \/ l.inner = 0

-----------------------------------------------------------------------------
(* Arrays.  An array is held as the sequence of its axes, outermost first: *)
(* what the axis runs over and its length.  "list" is the axis of a Python *)
(* list of one element, "tile" the leading axis of a mosaic read.          *)

Axis(ax, n) == [ax |-> ax, n |-> n]

\* the image rows and columns a read returns
PlaneAxes == <<Axis("Y", 2), Axis("X", 3)>>

\* ndarray.squeeze(): every axis of length 1 is dropped
Squeeze(a) == SelectSeq(a, LAMBDA x : x.n # 1)

\* np.swapaxes(a, 0, 1), for an array of two axes or more
SwapAxes(a) == <<a[2], a[1]>> \o SubSeq(a, 3, Len(a))

\* the shape row the reader describes entry e with: a single row serves
\* every entry
RowOf(shape, e) == IF e + 1 <= Len(shape) THEN shape[e + 1] ELSE shape[1]

\* what czi.read_image returns for entry e: one axis per axis of the file,
\* of length 1 where the call selects an index (S always, Z and C in
\* get_stack_data)
ReadImageAxes(content, e, kind) ==
    (IF has_scenes(content.dims) THEN <<Axis("S", 1)>> ELSE <<>>)
    \o <<Axis("T", content.time)>>
    \o (IF kind = "stack" THEN <<Axis("C", 1)>>
        ELSE IF RowOf(content.shape, e).C # Absent
             THEN <<Axis("C", RowOf(content.shape, e).C)>>
             ELSE <<>>)
    \o (IF has_stacks(content.dims) THEN <<Axis("Z", 1)>> ELSE <<>>)
    \o PlaneAxes

\* what czi.read_mosaic returns for one channel [and one plane]
ReadMosaicAxes == <<Axis("tile", 1)>> \o PlaneAxes

\* np.array of the nested lists the loops of `l` have filled with `plane`
Nested(outerAx, innerAx, l, plane) ==
    IF l.outer = 0 THEN <<Axis(outerAx, 0)>>
    ELSE IF l.inner = 0 THEN <<Axis(outerAx, l.outer), Axis(innerAx, 0)>>
    ELSE <<Axis(outerAx, l.outer), Axis(innerAx, l.inner)>> \o plane

\* a variant of Assembled that swaps the leading axes of every mosaic array
AssembledSwapped(content, e, l) ==
    IF l.kind = "scene" THEN ReadImageAxes(content, e, "scene")
    ELSE IF l.kind = "stack"
    THEN Nested("Z", "C", l, ReadImageAxes(content, e, "stack"))
    ELSE IF l.depth
    THEN SwapAxes(Nested("C", "Z", l, Squeeze(ReadMosaicAxes)))
    ELSE SwapAxes(Nested("C", "list", l, Squeeze(ReadMosaicAxes)))

\* a variant of Assembled that swaps the leading axes of no mosaic array
AssembledUnswapped(content, e, l) ==
    IF l.kind = "scene" THEN ReadImageAxes(content, e, "scene")
    ELSE IF l.kind = "stack"
    THEN Nested("Z", "C", l, ReadImageAxes(content, e, "stack"))
    ELSE IF l.depth
    THEN Nested("C", "Z", l, Squeeze(ReadMosaicAxes))
    ELSE Nested("C", "list", l, Squeeze(ReadMosaicAxes))

\* the array a strategy returns once its loops `l` are done: get_scene_data
\* line 100, get_stack_data line 121, get_mosaic_data lines 149-152
Assembled(content, e, l) ==
    IF l.kind = "scene" THEN ReadImageAxes(content, e, "scene")
    ELSE IF l.kind = "stack"
    THEN Nested("Z", "C", l, ReadImageAxes(content, e, "stack"))
    ELSE IF l.depth
    THEN Nested("C", "Z", l, Squeeze(ReadMosaicAxes))
    ELSE SwapAxes(Nested("C", "list", l, Squeeze(ReadMosaicAxes)))

\* lines 219-225: a non-mosaic array is squeezed and, with more than three
\* axes left and no depth axis in the descriptor, its leading axes are
\* swapped; a mosaic array stays as get_mosaic_data returned it
PostProcess(czi_dims, kind, a) ==
    IF kind = "mosaic" THEN a
    ELSE LET sq == Squeeze(a)
         IN IF Len(sq) > 3 /\ ~ has_stacks(czi_dims) THEN SwapAxes(sq) ELSE sq

-----------------------------------------------------------------------------
(* The calls into the external libraries, as they are logged.              *)

BaseEv ==
    [op |-> "", call |-> 0, ok |-> TRUE, e |-> Absent, sel |-> NoSel,
     path |-> <<>>, img |-> <<>>, shape |-> <<>>, res |-> <<>>,
     unit |-> "", spacing |-> <<>>, region |-> Absent, scale |-> Absent,
     astype |-> Absent]

\* output_dir / f"{stem}_{suffix}.tif", relative to output_dir
OutputPath(stem, suffix) == stem \o <<"_">> \o suffix \o <<".", "t", "i", "f">>

-----------------------------------------------------------------------------
(* The inputs of a run.                                                    *)

DefaultMeta == [X |-> NoElem, Y |-> NoElem, Z |-> NoElem]

\* `time` is the length of the time axis of the planes the reader returns
CziContent(dims, shape, meta) ==
    [kind |-> "czi", dims |-> dims, shape |-> shape, meta |-> meta,
     time |-> 1, images |-> <<>>]

LifContent(images) ==
    [kind |-> "lif", dims |-> {}, shape |-> <<>>, meta |-> DefaultMeta,
     time |-> 1, images |-> images]

File(stem, ext, sub, content) ==
    [stem |-> stem, ext |-> ext, sub |-> sub, content |-> content]

CziExt == <<".", "c", "z", "i">>
LifExt == <<".", "l", "i", "f">>
TxtExt == <<".", "t", "x", "t">>
CziUpperExt == <<".", "C", "Z", "I">>

\* The rows a table of a container with descriptor `dims` may hold.  The
\* code reads the scene count of row 0 only, and only under a descriptor
\* with the scene axis; it reads M and Z only under a descriptor with that
\* axis.  Fields that are never read are held at one value.  The rows of
\* one table have the same keys (`keys`); a count is 1 or MaxCount.
Rows(dims, first, keys) ==
    { Row(s, m, z, c) :
        s \in (IF first /\ has_scenes(dims) THEN 0..MaxScenes ELSE {1}),
        m \in (IF "M" \in keys THEN {0, 1} ELSE {Absent}),
        z \in (IF "Z" \in keys THEN {1, MaxCount} ELSE {Absent}),
        c \in (IF "C" \in keys THEN {1, MaxCount} ELSE {Absent}) }

\* the keys a table may hold among those the code looks up
KeySets(dims) == SUBSET ({"C"} \cup (dims \cap {"M", "Z"}))

RECURSIVE TablesOfLen(_, _, _)
TablesOfLen(dims, n, keys) ==
    IF n = 0 THEN { <<>> }
    ELSE IF n = 1 THEN { <<r>> : r \in Rows(dims, TRUE, keys) }
    ELSE { Append(t, r) : t \in TablesOfLen(dims, n - 1, keys),
                          r \in Rows(dims, FALSE, keys) }

Tables(dims) ==
    UNION { TablesOfLen(dims, n, keys) : n \in 0..MaxRows, keys \in KeySets(dims) }

Descriptors == SUBSET {"S", "M", "Z"}

\* what find(...) may give for a distance record
Texts == {NoElem, NoText, BadText} \cup { Num(v) : v \in {0, 1000, 2000, -500} }

Metas == [X : Texts, Y : Texts, Z : Texts]

MicronMeta == [X |-> Num(1000), Y |-> Num(1000), Z |-> Num(2000)]

\* containers whose shape varies, with no distance metadata
ShapeContents ==
    UNION { { CziContent(d, t, DefaultMeta) : t \in Tables(d) } :
            d \in Descriptors }

\* single-row containers without mosaics whose planes hold several time
\* points
TimeContents ==
    { [c EXCEPT !.time = MaxCount] :
        c \in { x \in ShapeContents : Len(x.shape) = 1 /\ ~ has_mosaics(x.dims) } }

\* containers whose metadata varies: two scenes, each read in one piece
MetaContents ==
    { CziContent({"S"}, <<Row(2, Absent, Absent, 1)>>, m) : m \in Metas }

\* image.scale of a .lif image: None, or a tuple of numbers
NoScale == <<>>
Scales == { NoScale, <<Rat(2, 1), Rat(2, 1), Rat(1, 2)>> }

LifImages == [name : { <<"0">>, <<"s">> }, scale : Scales]

RECURSIVE SeqsUpTo(_, _)
SeqsUpTo(S, n) ==
    IF n = 0 THEN { <<>> }
    ELSE LET shorter == SeqsUpTo(S, n - 1)
         IN shorter \cup { Append(q, x) : q \in shorter, x \in S }

LifContents == { LifContent(q) : q \in SeqsUpTo(LifImages, MaxImages) }

\* the files process_file is called with directly
ApiFiles ==
    { File(<<"a">>, CziExt, FALSE, c) :
        c \in ShapeContents \cup TimeContents \cup MetaContents }
    \cup { File(<<"a">>, LifExt, FALSE, c) : c \in LifContents }
    \cup { File(<<"a">>, e, FALSE, CziContent({}, <<Row(1, Absent, Absent, 1)>>, DefaultMeta)) :
             e \in {TxtExt, CziUpperExt} }

\* the files under a directory main is run on; `sub` tells a file of a
\* subdirectory from a direct child
GoodCzi == CziContent({"S"}, <<Row(2, Absent, Absent, 1)>>, MicronMeta)
BadCzi == CziContent({"S"}, <<Row(1, Absent, Absent, 1)>>,
                     [MicronMeta EXCEPT !.Y = BadText])
OneImageLif == LifContent(<<[name |-> <<"0">>, scale |-> NoScale]>>)

DirFiles ==
    { File(<<"a">>, CziExt, FALSE, GoodCzi),
      File(<<"b">>, CziExt, FALSE, BadCzi),
      File(<<"a">>, CziExt, TRUE, GoodCzi),
      File(<<"a">>, LifExt, FALSE, OneImageLif),
      File(<<"b">>, LifExt, TRUE, OneImageLif),
      File(<<"b">>, CziUpperExt, FALSE, GoodCzi),
      File(<<"a">>, TxtExt, FALSE, LifContent(<<>>)) }

\* the direct children of a directory have different names
Listings ==
    { q \in SeqsUpTo(DirFiles, MaxFiles) :
        \A i, j \in DOMAIN q :
            (i # j /\ ~ q[i].sub /\ ~ q[j].sub) => NameOf(q[i]) # NameOf(q[j]) }

NoMatch == <<>>

\* `cur` before the first call of process_file
NoFile == File(<<>>, <<>>, FALSE, LifContent(<<>>))

\* the choices of --bit-depth, and its default
BitDepths == {8, 16, 32}
DefaultBitDepth == 16

\* the bit depths of two runs that differ in nothing else
TwinBits == { b \in BitDepths \X BitDepths : b[1] < b[2] }

\* the options --verbose, --quiet and --log-file of main
Options(verbose, quiet, log_file) ==
    [verbose |-> verbose, quiet |-> quiet, log_file |-> log_file]

NoOptions == Options(FALSE, FALSE, NoPath)

CliOptions ==
    { NoOptions, Options(FALSE, TRUE, NoPath), Options(TRUE, TRUE, <<"l">>) }

Inputs ==
    { [isDir |-> FALSE, listing |-> <<f>>, recursive |-> FALSE, match |-> NoMatch,
       opts |-> NoOptions, bits |-> <<DefaultBitDepth>>] :
        f \in ApiFiles }

\* the containers that are processed twice: those of at most one shape
\* row and at most one image, without distance metadata or with all of it
TwinFiles ==
    { f \in ApiFiles :
        /\ Len(f.content.shape) <= 1 /\ Len(f.content.images) <= 1
        /\ f.content.meta \in {DefaultMeta, MicronMeta} }

\* two runs of process_file on one container that differ in the bit depth
TwinInputs ==
    { [isDir |-> FALSE, listing |-> <<f, f>>, recursive |-> FALSE, match |-> NoMatch,
       opts |-> NoOptions, bits |-> b] :
        f \in TwinFiles, b \in TwinBits }

MainInputs ==
    { [isDir |-> TRUE, listing |-> q, recursive |-> r, match |-> m,
       opts |-> NoOptions, bits |-> <<DefaultBitDepth>>] :
        q \in Listings, r \in BOOLEAN,
        m \in {NoMatch, <<"a">>} }
    \cup { [isDir |-> FALSE, listing |-> <<f>>, recursive |-> FALSE, match |-> NoMatch,
            opts |-> o, bits |-> <<DefaultBitDepth>>] :
        f \in DirFiles, o \in CliOptions }

\* the run calls setup_logging only
NoInput ==
    [isDir |-> FALSE, listing |-> <<>>, recursive |-> FALSE, match |-> NoMatch,
     opts |-> NoOptions, bits |-> <<DefaultBitDepth>>]

LevelNames == {"DEBUG", "INFO", "ERROR", "debug", "verbose"}

LogArgSets ==
    { LogArgs(l, f, c, o, q) :
        l \in LevelNames, f \in {NoPath, <<"l">>}, c \in BOOLEAN,
        o \in BOOLEAN, q \in BOOLEAN }

NoLogArgs == LogArgs("", NoPath, FALSE, FALSE, FALSE)

Init ==
    /\ \/ api = "process_file" /\ input \in Inputs
       \/ api = "main" /\ input \in MainInputs
       \/ api = "setup_logging" /\ input = NoInput
       \/ api = "process_file_twice" /\ input \in TwinInputs
    /\ mainpc = "start"
    /\ files = <<>>
    /\ fi = 1
    /\ results = <<>>
    /\ pc = "idle"
    /\ cur = NoFile
    /\ resolution = <<>>
    /\ entry_n = 0
    /\ entry_index = 0
    /\ loop = NoLoop
    /\ img = <<>>
    /\ arr = <<>>
    /\ log = <<>>
    /\ logger = FreshLogger
    /\ logcalls = 0
    /\ logargs = NoLogArgs

-----------------------------------------------------------------------------
(* Steps.                                                                  *)

Last(q) == q[Len(q)]

logVars == <<logger, logcalls, logargs>>
callerVars == <<api, input, mainpc, files, fi, logVars>>
localVars == <<resolution, entry_n, entry_index, loop, img, arr>>

CallNo == Len(results) + 1

\* ExportParams.bit_depth of the call that is running: main builds the
\* parameters once, a program calling process_file builds them per call
export_params ==
    [bit_depth |-> input.bits[IF CallNo <= Len(input.bits) THEN CallNo ELSE 1]]

\* a variant of Conversion that converts the array to the bit depth
ConversionToDepth(params) == params.bit_depth

\* the conversion the array undergoes before it is written: none, the
\* array goes to imwrite as it was read
Conversion(params) == Absent

Logged(ev) == log' = Append(log, [ev EXCEPT !.call = CallNo])

\* the current process_file call ends: normally (how = "ok") or by raising
Return(how) ==
    /\ pc' = "idle"
    /\ results' = Append(results, [file |-> cur, how |-> how])

Goto(l) ==
    /\ pc' = l
    /\ UNCHANGED results

\* a variant of Dispatch without the final else branch: whatever is not
\* .lif is handed to process_czi
DispatchNoElse(ext) ==
    IF Lower(ext) = LifExt THEN "lif_open" ELSE "read_czi"

\* process_file, lines 291-305: dispatch on the lower-cased suffix
Dispatch(ext) ==
    IF Lower(ext) = CziExt THEN "read_czi"
    ELSE IF Lower(ext) = LifExt THEN "lif_open"
    ELSE "unsupported"

process_file ==
    /\ pc = "process_file"
    /\ IF Dispatch(cur.ext) = "unsupported"
       THEN Return("ValueError")
       ELSE Goto(Dispatch(cur.ext))
    /\ UNCHANGED <<callerVars, cur, localVars, log>>

\* read_czi, lines 20-29, called at line 158
read_czi ==
    /\ pc = "read_czi"
    /\ \E ok \in BOOLEAN :
        /\ Logged([BaseEv EXCEPT !.op = "open_czi", !.ok = ok])
        /\ IF ok THEN Goto("get_resolution") ELSE Return("OpenError")
    /\ UNCHANGED <<callerVars, cur, localVars>>

\* line 161
ResolveCalibration ==
    /\ pc = "get_resolution"
    /\ LET r == get_resolution(cur.content.meta)
       IN IF r.exc = "none"
          THEN resolution' = r.val /\ Goto("classify")
          ELSE UNCHANGED resolution /\ Return(r.exc)
    /\ UNCHANGED <<callerVars, cur, entry_n, entry_index, loop, img, arr, log>>

\* lines 164-203
Classify ==
    /\ pc = "classify"
    /\ LET n == EntryIndexes(cur.content.dims, cur.content.shape)
       IN IF n.exc = "none"
          THEN /\ entry_n' = RangeLen(n.val)
               /\ entry_index' = 0
               /\ Goto("entry")
          ELSE /\ UNCHANGED <<entry_n, entry_index>>
               /\ Return(n.exc)
    /\ UNCHANGED <<callerVars, cur, resolution, loop, img, arr, log>>

\* the loops `l` of the entry are set up: with nothing to read the strategy
\* returns its array at once
Enter(l) ==
    /\ loop' = l
    /\ IF Finished(l)
       THEN arr' = Assembled(cur.content, entry_index, l) /\ Goto("mkdir")
       ELSE UNCHANGED arr /\ Goto("read")

\* a non-mosaic entry, lines 211-216, up to the first read
BeginPlain ==
    LET l == PlainLoop(cur.content.dims, cur.content.shape)
    IN /\ IF l.exc # "none"
          THEN UNCHANGED <<loop, arr>> /\ Return(l.exc)
          ELSE Enter(l.val)
       /\ UNCHANGED log

\* a mosaic entry, lines 127-133, up to the first read
BeginMosaic ==
    LET l == MosaicLoop(cur.content.dims, cur.content.shape, entry_index)
    IN /\ Logged([BaseEv EXCEPT !.op = "bboxes", !.e = entry_index])
       /\ IF l.exc # "none"
          THEN UNCHANGED <<loop, arr>> /\ Return(l.exc)
          ELSE Enter(l.val)

\* the head of the loop over entry_indexes, lines 205-228
NextEntry ==
    /\ pc = "entry"
    /\ IF entry_index >= entry_n
       THEN Return("ok") /\ UNCHANGED <<loop, img, arr, log>>
       ELSE LET m == IsMosaic(cur.content.dims, cur.content.shape, entry_index)
            IN /\ img' = <<>>
               /\ IF m.exc # "none"
                  THEN Return(m.exc) /\ UNCHANGED <<loop, arr, log>>
                  ELSE IF m.val THEN BeginMosaic ELSE BeginPlain
    /\ UNCHANGED <<callerVars, cur, resolution, entry_n, entry_index>>

\* a variant of ReadFailed whose handler logs the error and does not raise
ReadFailedSwallowed ==
    /\ UNCHANGED <<img, loop, arr>>
    /\ Return("ok")

\* a read has raised: lines 247-249 log the error and raise it again
ReadFailed ==
    /\ UNCHANGED <<img, loop, arr>>
    /\ Return("ReadError")

\* one czi.read_image or czi.read_mosaic call (lines 99, 113, 134, 142)
ReadPlane ==
    /\ pc = "read"
    /\ \E ok \in BOOLEAN :
        /\ Logged([BaseEv EXCEPT
                     !.op = IF loop.kind = "mosaic" THEN "read_mosaic"
                                                    ELSE "read_image",
                     !.ok = ok, !.e = entry_index,
                     !.sel = Selectors(loop, entry_index),
                     !.region = Region(loop, entry_index),
                     !.scale = ScaleFactor(loop)])
        /\ IF ok
           THEN /\ img' = Append(img, Selectors(loop, entry_index))
                /\ Enter(Advance(loop))
           ELSE ReadFailed
    /\ UNCHANGED <<callerVars, cur, resolution, entry_n, entry_index>>

\* a variant of MakeOutputDir that does not create the output directory
MakeOutputDirSkipped ==
    /\ pc = "mkdir"
    /\ arr' = PostProcess(cur.content.dims, loop.kind, arr)
    /\ Goto("imwrite")
    /\ UNCHANGED <<callerVars, cur, resolution, entry_n, entry_index, loop, img, log>>

\* lines 217-231: the array is squeezed and swapped, then the output
\* directory is created
MakeOutputDir ==
    /\ pc = "mkdir"
    /\ arr' = PostProcess(cur.content.dims, loop.kind, arr)
    /\ Logged([BaseEv EXCEPT !.op = "mkdir", !.e = entry_index])
    /\ Goto("imwrite")
    /\ UNCHANGED <<callerVars, cur, resolution, entry_n, entry_index, loop, img>>

\* a variant of WriteEntry that passes the first and the last component of
\* the calibration vector as the 2-D resolution
WriteEntryLast ==
    /\ pc = "imwrite"
    /\ Logged([BaseEv EXCEPT
                 !.op = "imwrite", !.e = entry_index,
                 !.path = OutputPath(cur.stem, StrOfNat(entry_index)),
                 !.img = img, !.shape = arr,
                 !.res = <<resolution[1], resolution[Len(resolution)]>>,
                 !.unit = "micron",
                 !.spacing = resolution,
                 !.astype = Conversion(export_params)])
    /\ entry_index' = entry_index + 1
    /\ Goto("entry")
    /\ UNCHANGED <<callerVars, cur, resolution, entry_n, loop, img, arr>>

\* lines 233-245
WriteEntry ==
    /\ pc = "imwrite"
    /\ Logged([BaseEv EXCEPT
                 !.op = "imwrite", !.e = entry_index,
                 !.path = OutputPath(cur.stem, StrOfNat(entry_index)),
                 !.img = img, !.shape = arr,
                 !.res = <<resolution[1], resolution[2]>>,
                 !.unit = "micron",
                 !.spacing = resolution,
                 !.astype = Conversion(export_params)])
    /\ entry_index' = entry_index + 1
    /\ Goto("entry")
    /\ UNCHANGED <<callerVars, cur, resolution, entry_n, loop, img, arr>>

\* process_lif, line 256
OpenLif ==
    /\ pc = "lif_open"
    /\ \E ok \in BOOLEAN :
        /\ Logged([BaseEv EXCEPT !.op = "open_lif", !.ok = ok])
        /\ IF ok THEN Goto("lif_image") ELSE Return("OpenError")
    /\ entry_index' = 0
    /\ UNCHANGED <<callerVars, cur, resolution, entry_n, loop, img, arr>>

\* process_lif, lines 258-272: the next image, its scale and its frame
NextImage ==
    /\ pc = "lif_image"
    /\ IF entry_index >= Len(cur.content.images)
       THEN Return("ok") /\ UNCHANGED <<resolution, img, arr, log>>
       ELSE LET image == cur.content.images[entry_index + 1]
            IN /\ resolution' = IF image.scale = NoScale
                                THEN <<One, One, One>> ELSE image.scale
               /\ \E ok \in BOOLEAN :
                    /\ Logged([BaseEv EXCEPT !.op = "get_frame", !.ok = ok,
                                             !.e = entry_index])
                    /\ IF ok
                       THEN /\ img' = <<NoSel>>
                            /\ arr' = PlaneAxes
                            /\ Goto("lif_mkdir")
                       ELSE UNCHANGED <<img, arr>> /\ Return("ReadError")
    /\ UNCHANGED <<callerVars, cur, entry_n, entry_index, loop>>

\* process_lif, line 275
MakeOutputDirLif ==
    /\ pc = "lif_mkdir"
    /\ Logged([BaseEv EXCEPT !.op = "mkdir", !.e = entry_index])
    /\ Goto("lif_imwrite")
    /\ UNCHANGED <<callerVars, cur, localVars>>

\* process_lif, lines 276-288
WriteImage ==
    /\ pc = "lif_imwrite"
    /\ Logged([BaseEv EXCEPT
                 !.op = "imwrite", !.e = entry_index,
                 !.path = OutputPath(cur.stem,
                                     cur.content.images[entry_index + 1].name),
                 !.img = img, !.shape = arr,
                 !.res = <<resolution[1], resolution[2]>>,
                 !.unit = "micron",
                 !.spacing = resolution,
                 !.astype = Conversion(export_params)])
    /\ entry_index' = entry_index + 1
    /\ Goto("lif_image")
    /\ UNCHANGED <<callerVars, cur, resolution, entry_n, loop, img, arr>>

-----------------------------------------------------------------------------
(* main (czi2tif.py) and a direct caller of process_file.                  *)

AllowedExtensions == {CziExt, LifExt}

\* Path(input).glob("**/*ext" if recursive else "*ext"), in directory order
Glob(listing, ext, recursive) ==
    SelectSeq(listing, LAMBDA f : f.ext = ext /\ (recursive \/ ~ f.sub))

\* a variant of Discover that does not apply the --match filter
DiscoverUnfiltered(in) ==
    Glob(in.listing, CziExt, in.recursive) \o Glob(in.listing, LifExt, in.recursive)

\* lines 118-127: the list `files`
Discover(in) ==
    LET found == Glob(in.listing, CziExt, in.recursive)
                   \o Glob(in.listing, LifExt, in.recursive)
    IN IF in.match # NoMatch
       THEN SelectSeq(found, LAMBDA f : Contains(NameOf(f), in.match))
       ELSE found

\* lines 70-88: the arguments main calls setup_logging with; --verbose
\* overrides --quiet
MainLogArgs(o) ==
    IF o.quiet /\ ~ o.verbose
    THEN LogArgs("INFO", NoPath, TRUE, FALSE, TRUE)
    ELSE LogArgs(IF o.verbose THEN "DEBUG" ELSE "INFO", o.log_file, TRUE,
                 o.log_file # NoPath, FALSE)

\* setup_logging called by a program other than main, any arguments
SetupLoggingCall ==
    /\ api = "setup_logging" /\ logcalls < MaxCalls
    /\ \E a \in LogArgSets :
          /\ logger' = setup_logging(logger, a)
          /\ logargs' = a
    /\ logcalls' = logcalls + 1
    /\ UNCHANGED <<api, input, mainpc, files, fi, results, pc, cur, localVars, log>>

\* main up to its first call of process_file, lines 65-127
MainStart ==
    /\ api = "main" /\ mainpc = "start"
    /\ logger' = setup_logging(logger, MainLogArgs(input.opts))
    /\ logargs' = MainLogArgs(input.opts)
    /\ logcalls' = logcalls + 1
    /\ IF input.isDir
       THEN files' = Discover(input) /\ mainpc' = "loop"
       ELSE /\ UNCHANGED files
            /\ mainpc' = IF Lower(input.listing[1].ext) \notin AllowedExtensions
                         THEN "raised" ELSE "single"
    /\ UNCHANGED <<api, input, fi, results, pc, cur, localVars, log>>

\* lines 129-133: the loop body calls process_file(file, export_params)
MainCall ==
    /\ mainpc = "loop" /\ fi <= Len(files)
    /\ cur' = files[fi]
    /\ pc' = "process_file"
    /\ mainpc' = "called"
    /\ UNCHANGED <<api, input, files, fi, results, localVars, log, logVars>>

\* a variant of MainAfter whose handler raises the exception again
MainAfterReraise ==
    /\ mainpc = "called" /\ pc = "idle"
    /\ fi' = fi + 1
    /\ mainpc' = IF Last(results).how = "ok" THEN "loop" ELSE "raised"
    /\ UNCHANGED <<api, input, files, results, pc, cur, localVars, log, logVars>>

\* lines 134-138: the call returned or raised; either way the loop goes on
MainAfter ==
    /\ mainpc = "called" /\ pc = "idle"
    /\ fi' = fi + 1
    /\ mainpc' = "loop"
    /\ UNCHANGED <<api, input, files, results, pc, cur, localVars, log, logVars>>

\* lines 140-143
MainSingleCall ==
    /\ mainpc = "single"
    /\ cur' = input.listing[1]
    /\ pc' = "process_file"
    /\ mainpc' = "single_called"
    /\ UNCHANGED <<api, input, files, fi, results, localVars, log, logVars>>

\* lines 144-150, and line 150 after the loop: main returns
MainEnd ==
    /\ \/ mainpc = "single_called" /\ pc = "idle"
       \/ mainpc = "loop" /\ fi > Len(files)
    /\ mainpc' = "done"
    /\ UNCHANGED <<api, input, files, fi, results, pc, cur, localVars, log, logVars>>

\* process_file(path, export_params) called directly, as the tests do
ApiCall ==
    /\ api \in {"process_file", "process_file_twice"} /\ mainpc = "start"
    /\ cur' = input.listing[1]
    /\ pc' = "process_file"
    /\ mainpc' = "api_called"
    /\ UNCHANGED <<api, input, files, fi, results, localVars, log, logVars>>

\* the direct call returns to its caller, or raises into it
\* the second of two runs of process_file
ApiCallAgain ==
    /\ api = "process_file_twice" /\ mainpc = "api_called" /\ pc = "idle"
    /\ Len(results) = 1
    /\ cur' = input.listing[2]
    /\ pc' = "process_file"
    /\ UNCHANGED <<api, input, mainpc, files, fi, results, localVars, log, logVars>>

ApiReturn ==
    /\ mainpc = "api_called" /\ pc = "idle"
    /\ Len(results) = Len(input.listing)
    /\ mainpc' = IF Last(results).how = "ok" THEN "done" ELSE "raised"
    /\ UNCHANGED <<api, input, files, fi, results, pc, cur, localVars, log, logVars>>

Next ==
    \/ MainStart \/ MainCall \/ MainAfter \/ MainSingleCall \/ MainEnd
    \/ ApiCall \/ ApiCallAgain \/ ApiReturn \/ SetupLoggingCall
    \/ process_file \/ read_czi \/ ResolveCalibration \/ Classify
    \/ NextEntry \/ ReadPlane \/ MakeOutputDir \/ WriteEntry
    \/ OpenLif \/ NextImage \/ MakeOutputDirLif \/ WriteImage

Spec == Init /\ [][Next]_vars

-----------------------------------------------------------------------------
(* Vocabulary of the properties.                                           *)

\* a process_file call has ended and no other has begun: `cur` is its file
Completed == pc = "idle" /\ results # <<>>

Outcome == Last(results).how

\* what the call number c has logged so far
CallLog(c) == SelectSeq(log, LAMBDA ev : ev.call = c)

WritesOf(c) == SelectSeq(log, LAMBDA ev : ev.call = c /\ ev.op = "imwrite")

IsCzi(f) == Lower(f.ext) = CziExt

IsRead(ev) == ev.op \in {"read_image", "read_mosaic"}

\* every call into the reader that call c has made has succeeded
AllReadsOk(c) == \A k \in DOMAIN log : log[k].call = c => log[k].ok

\* the row holds every key the code may look up under this descriptor
CompleteRow(dims, row) ==
    /\ has_scenes(dims) => row.S # Absent
    /\ has_mosaics(dims) => row.M # Absent
    /\ has_stacks(dims) => row.Z # Absent
    /\ row.C # Absent

CompleteTable(dims, shape) ==
    \A k \in DOMAIN shape : CompleteRow(dims, shape[k])

\* process_czi is past line 203 in the call that is running
Enumerated == pc \in {"entry", "read", "mkdir", "imwrite"}

-----------------------------------------------------------------------------
(* C1.  Entry enumeration: for a non-empty shape table whose row 0         *)
(* declares S scenes, the entries are 0..S-1 if the descriptor has the     *)
(* scene axis and (table length = S, or table length = 1 and S > 1); in    *)
(* every other case they are 0..len(table)-1.                              *)

C1_EntryEnumeration ==
    LET dims == cur.content.dims
        shape == cur.content.shape
    IN (Enumerated /\ Len(shape) >= 1) =>
          entry_n = IF /\ has_scenes(dims)
                       /\ \/ Len(shape) = shape[1].S
                          \/ Len(shape) = 1 /\ shape[1].S > 1
                    THEN shape[1].S
                    ELSE Len(shape)

-----------------------------------------------------------------------------
(* C2.  With the scene axis in the descriptor and a single shape row that  *)
(* declares N > 1 scenes, all N entries are assembled from that row and    *)
(* exported without error, also when the descriptor has the mosaic axis.   *)

SingleRowManyScenes(f) ==
    /\ IsCzi(f)
    /\ has_scenes(f.content.dims)
    /\ Len(f.content.shape) = 1
    /\ f.content.shape[1].S > 1
    /\ CompleteTable(f.content.dims, f.content.shape)
    /\ get_resolution(f.content.meta).exc = "none"

C2_SingleRowServesEveryScene ==
    (Completed /\ SingleRowManyScenes(cur) /\ AllReadsOk(Len(results))) =>
        /\ Outcome = "ok"
        /\ Len(WritesOf(Len(results))) = cur.content.shape[1].S

-----------------------------------------------------------------------------
(* C3.  process_file on a path whose extension is neither .czi nor .lif    *)
(* raises the unsupported-format error, and no container has been opened,  *)
(* nothing read, no directory created and nothing written by then.         *)

C3_UnsupportedFailsBeforeOpen ==
    (Completed /\ Lower(cur.ext) \notin {CziExt, LifExt}) =>
        /\ Outcome = "ValueError"
        /\ CallLog(Len(results)) = <<>>

C3_Witness ==
    /\ Completed
    /\ cur.ext = TxtExt
    /\ Outcome = "ValueError"

-----------------------------------------------------------------------------
(* C4.  A CZI container with E enumerated entries whose reads all succeed  *)
(* gets exactly E writes, the i-th to <stem>_<i>.tif for i = 0..E-1 in     *)
(* increasing order.                                                       *)

C4_OneWritePerEntry ==
    LET c == Len(results)
        n == EntryIndexes(cur.content.dims, cur.content.shape)
    IN ( /\ Completed /\ IsCzi(cur) /\ AllReadsOk(c)
         /\ get_resolution(cur.content.meta).exc = "none"
         /\ n.exc = "none"
         /\ CompleteTable(cur.content.dims, cur.content.shape) ) =>
        /\ Len(WritesOf(c)) = RangeLen(n.val)
        /\ \A i \in 1..Len(WritesOf(c)) :
              WritesOf(c)[i].path = OutputPath(cur.stem, StrOfNat(i - 1))

-----------------------------------------------------------------------------
(* C5.  If a read for entry k of a CZI file fails, the writes of entries   *)
(* 0..k-1 stay as they are, entry k is not written, the call issues no     *)
(* further read, directory creation or write, and the failure leaves       *)
(* process_czi and process_file as an exception.                           *)

FailedRead(p) == IsRead(log[p]) /\ ~ log[p].ok

C5_ReadFailureAbandonsFile ==
    \A p \in DOMAIN log :
        FailedRead(p) =>
            LET c == log[p].call
                k == log[p].e
            IN /\ \A q \in DOMAIN log : q > p => log[q].call # c
               /\ Len(results) >= c
               /\ results[c].how = "ReadError"
               /\ Len(WritesOf(c)) = k
               /\ \A i \in 1..k :
                     /\ WritesOf(c)[i].e = i - 1
                     /\ WritesOf(c)[i].path =
                            OutputPath(results[c].file.stem, StrOfNat(i - 1))
               /\ api = "process_file" => mainpc # "done"

C5_Witness ==
    \E p \in DOMAIN log :
        /\ FailedRead(p)
        /\ log[p].e = 2
        /\ Len(WritesOf(log[p].call)) = 2
        /\ mainpc = "raised"

-----------------------------------------------------------------------------
(* C6.  A write for an entry is issued only after every read of the        *)
(* entry's strategy has succeeded: 1 for a simple scene, depth x channel   *)
(* for a stack, channel [x depth] for a mosaic.  No write carries an array *)
(* built from part of those reads.                                         *)

\* the file of call c, ended or running
FileOf(c) == IF c <= Len(results) THEN results[c].file ELSE cur

\* the reads the strategy of entry e issues: the depth-stack strategy takes
\* its counts from row 0 (get_stack_data), the mosaic strategies from row e
RequiredReads(f, e) ==
    LET dims == f.content.dims
        shape == f.content.shape
    IN IF has_mosaics(dims) /\ shape[e + 1].M > 0
       THEN shape[e + 1].C * (IF has_stacks(dims) THEN shape[e + 1].Z ELSE 1)
       ELSE IF has_stacks(dims) THEN shape[1].Z * shape[1].C
       ELSE 1

ReadsBefore(p, ok) ==
    { q \in 1..(p - 1) : /\ IsRead(log[q])
                         /\ log[q].call = log[p].call
                         /\ log[q].e = log[p].e
                         /\ log[q].ok = ok }

CziWrite(p) == log[p].op = "imwrite" /\ IsCzi(FileOf(log[p].call))

-----------------------------------------------------------------------------
(* C7.  main never lets a failure of process_file stop the run: in         *)
(* directory mode process_file is called once for every selected file, in  *)
(* list order, whatever earlier files raised; in single-file mode the      *)
(* exception is caught; in both modes main then returns normally.          *)

C7_MainSurvivesFailures ==
    api = "main" =>
        /\ mainpc = "raised" => results = <<>>
        /\ (mainpc = "done" /\ input.isDir) =>
              /\ Len(results) = Len(files)
              /\ \A i \in 1..Len(files) : results[i].file = files[i]
        /\ (mainpc = "done" /\ ~ input.isDir) =>
              /\ Len(results) = 1
              /\ results[1].file = input.listing[1]
        /\ mainpc \notin {"done", "raised"} => ENABLED Next

C7_Witness ==
    /\ api = "main" /\ input.isDir /\ mainpc = "done"
    /\ Len(results) = 2
    /\ results[1].how = "ValueError"
    /\ results[2].how = "ok"

-----------------------------------------------------------------------------
(* C8.  For a metadata document with no X distance record get_resolution   *)
(* returns exactly (1, 1, 1) and does not raise, whatever the Y and Z       *)
(* records are, and the export of the file goes on with that default.      *)

ResolutionErrors ==
    {"AttributeError", "TypeError", "ValueError", "ZeroDivisionError"}

\* process_czi is past line 161 in the call that is running
Resolved == pc \in {"classify", "entry", "read", "mkdir", "imwrite"}

Default == <<One, One, One>>

C8_NoXGivesDefault ==
    /\ (IsCzi(cur) /\ cur.content.meta.X = NoElem) =>
          /\ Resolved => resolution = Default
          /\ Completed => Outcome \notin ResolutionErrors
    /\ \A p \in DOMAIN log :
          (CziWrite(p) /\ FileOf(log[p].call).content.meta.X = NoElem) =>
              /\ log[p].spacing = Default
              /\ log[p].res = <<One, One>>

C8_Witness ==
    /\ Completed /\ IsCzi(cur) /\ Outcome = "ok"
    /\ cur.content.meta.X = NoElem
    /\ cur.content.meta.Y = BadText
    /\ cur.content.meta.Z = Num(0)
    /\ Len(WritesOf(Len(results))) = 2

-----------------------------------------------------------------------------
(* C9.  With valid X and Y distance records get_resolution never raises    *)
(* because of the Z record: it returns three components when Z is present  *)
(* with numeric text and two when Z is absent, empty or not numeric, each   *)
(* component being 1 / (metres * 1e6).                                     *)

ValidDistance(t) == t.k = "num" /\ t.v > 0

ValidXY(m) == ValidDistance(m.X) /\ ValidDistance(m.Y)

C9_ZNeverRaises ==
    LET m == cur.content.meta
    IN (IsCzi(cur) /\ ValidXY(m)) =>
          /\ Completed => Outcome \notin ResolutionErrors
          /\ Resolved =>
                resolution =
                    IF m.Z.k = "num"
                    THEN <<Rat(1000, m.X.v), Rat(1000, m.Y.v), Rat(1000, m.Z.v)>>
                    ELSE <<Rat(1000, m.X.v), Rat(1000, m.Y.v)>>

-----------------------------------------------------------------------------
(* C10.  If the text of the X or the Y distance record cannot be parsed as *)
(* a number, get_resolution raises and process_czi fails for that file     *)
(* with no plane or mosaic read, no directory creation and no write.       *)

Unparsable(t) == t.k \in {"notext", "bad"}

\* the call that has ended opened its container and did nothing else
OnlyOpened(c) ==
    /\ Len(CallLog(c)) = 1
    /\ CallLog(c)[1].op = "open_czi"

\* the claim as stated
C10_UnparsableXYIsFatal ==
    LET m == cur.content.meta
    IN (Completed /\ IsCzi(cur) /\ (Unparsable(m.X) \/ Unparsable(m.Y))) =>
          /\ OnlyOpened(Len(results))
          /\ Outcome \in ResolutionErrors \cup {"OpenError"}

\* the claim as amended: the X record is present
C10_UnparsableXYIsFatalGivenX ==
    LET m == cur.content.meta
    IN ( /\ Completed /\ IsCzi(cur)
         /\ m.X # NoElem
         /\ (Unparsable(m.X) \/ Unparsable(m.Y)) ) =>
          /\ OnlyOpened(Len(results))
          /\ Outcome \in ResolutionErrors \cup {"OpenError"}

C10_Witness ==
    /\ Completed /\ IsCzi(cur)
    /\ cur.content.meta.X = Num(1000)
    /\ cur.content.meta.Y = BadText
    /\ Outcome = "ValueError"
    /\ OnlyOpened(Len(results))

-----------------------------------------------------------------------------
(* C11.  The calibration vector of a CZI container is resolved once, when  *)
(* the container has been opened and nothing has been read; it does not    *)
(* change while the entries are processed; every write of the container    *)
(* passes the X and Y components of that vector as the 2-D resolution,     *)
(* with unit micron, and the whole vector as spacing.                      *)

\* the X and Y components the metadata gives
ExpectedXY(m) ==
    IF m.X = NoElem THEN <<One, One>>
    ELSE <<Rat(1000, m.X.v), Rat(1000, m.Y.v)>>

C11_WritesCarryXY ==
    \A p \in DOMAIN log :
        CziWrite(p) =>
            /\ log[p].res = ExpectedXY(FileOf(log[p].call).content.meta)
            /\ log[p].res = <<log[p].spacing[1], log[p].spacing[2]>>
            /\ log[p].unit = "micron"
            /\ \A q \in DOMAIN log :
                  (CziWrite(q) /\ log[q].call = log[p].call) =>
                      log[q].spacing = log[p].spacing

C11_CalibrationResolvedOnce ==
    /\ [](C11_WritesCarryXY /\ (pc = "get_resolution" => OnlyOpened(CallNo)))
    /\ [][Enumerated => resolution' = resolution]_vars

C11_Witness ==
    \E p \in DOMAIN log :
        /\ CziWrite(p)
        /\ log[p].e = 1
        /\ Len(log[p].spacing) = 3
        /\ log[p].spacing[1] # log[p].spacing[2]
        /\ log[p].spacing[3] # log[p].spacing[2]

-----------------------------------------------------------------------------
(* C12.  A .lif container with N images whose frames are all read gets N   *)
(* writes, one per image in iteration order, the i-th to                   *)
(* <stem>_<name of image i>.tif with the image's own scale or (1, 1, 1);   *)
(* these are N output artifacts (N different paths); no scene, mosaic or   *)
(* stack call is made.                                                     *)

IsLif(f) == Lower(f.ext) = LifExt

LifOps == {"open_lif", "get_frame", "mkdir", "imwrite"}

\* the paths the writes of call c went to
PathsOf(c) == { WritesOf(c)[i].path : i \in 1..Len(WritesOf(c)) }

C12_LifOneArtifactPerImage ==
    LET c == Len(results)
        images == cur.content.images
    IN (Completed /\ IsLif(cur) /\ AllReadsOk(c)) =>
          /\ Outcome = "ok"
          /\ Len(WritesOf(c)) = Len(images)
          /\ \A i \in 1..Len(WritesOf(c)) :
                /\ WritesOf(c)[i].path = OutputPath(cur.stem, images[i].name)
                /\ WritesOf(c)[i].spacing =
                      IF images[i].scale = NoScale THEN Default
                      ELSE images[i].scale
                /\ WritesOf(c)[i].res =
                      <<WritesOf(c)[i].spacing[1], WritesOf(c)[i].spacing[2]>>
          /\ \A k \in 1..Len(CallLog(c)) : CallLog(c)[k].op \in LifOps
          /\ Cardinality(PathsOf(c)) = Len(images)

-----------------------------------------------------------------------------
(* C13.  With the scene axis in the descriptor and an empty shape table,   *)
(* process_czi raises; by then it has opened the container and has read    *)
(* no plane, created no directory and written nothing.  It never ends      *)
(* normally with zero artifacts.                                           *)

C13_EmptyTableWithScenesRaises ==
    ( /\ Completed /\ IsCzi(cur)
      /\ has_scenes(cur.content.dims)
      /\ cur.content.shape = <<>> ) =>
        /\ Outcome # "ok"
        /\ OnlyOpened(Len(results))

C13_Witness ==
    /\ Completed /\ IsCzi(cur)
    /\ has_scenes(cur.content.dims)
    /\ cur.content.shape = <<>>
    /\ Outcome = "IndexError"
    /\ mainpc = "raised"

-----------------------------------------------------------------------------
(* C14.  Every array process_czi hands to the writer has no axis of        *)
(* length 1, whichever of the four strategies assembled it.                *)

NoSingleton(a) == \A i \in DOMAIN a : a[i].n # 1

C14_NoSingletonAxisWritten ==
    \A p \in DOMAIN log : CziWrite(p) => NoSingleton(log[p].shape)

-----------------------------------------------------------------------------
(* C15.  Every calibration vector get_resolution returns, the default or a *)
(* parsed one, whatever the distance values are, has only strictly         *)
(* positive (finite) components.                                           *)

Positive(r) == r.n > 0 /\ r.d > 0

C15_CalibrationPositive ==
    (IsCzi(cur) /\ Resolved) =>
        \A i \in DOMAIN resolution : Positive(resolution[i])

-----------------------------------------------------------------------------
(* C16.  In directory mode main calls process_file exactly once for each   *)
(* file under the directory (direct children only without --recursive)     *)
(* whose extension is .czi or .lif and whose name contains the --match     *)
(* text when one is given, and for no other file; when no file qualifies,  *)
(* process_file is never called.                                           *)

Qualifies(f, in) ==
    /\ f.ext \in {CziExt, LifExt}
    /\ in.recursive \/ ~ f.sub
    /\ in.match # NoMatch => Contains(NameOf(f), in.match)

\* how many entries of the sequence q are x
Occurrences(q, x) == Cardinality({ i \in DOMAIN q : q[i] = x })

CalledFiles == [i \in DOMAIN results |-> results[i].file]

C16_DirectorySelection ==
    (api = "main" /\ input.isDir) =>
        /\ \A i \in DOMAIN results : Qualifies(results[i].file, input)
        /\ \A f \in DirFiles :
              Occurrences(CalledFiles, f) <= Occurrences(input.listing, f)
        /\ mainpc = "done" =>
              \A f \in DirFiles :
                  Qualifies(f, input) =>
                      Occurrences(CalledFiles, f) = Occurrences(input.listing, f)
        /\ (\A k \in DOMAIN input.listing : ~ Qualifies(input.listing[k], input)) =>
              pc = "idle" /\ cur = NoFile

C16_Witness ==
    /\ api = "main" /\ input.isDir /\ mainpc = "done"
    /\ input.recursive /\ input.match = <<"a">>
    /\ Len(input.listing) = 2
    /\ input.listing[1].sub /\ Qualifies(input.listing[1], input)
    /\ ~ Qualifies(input.listing[2], input)
    /\ input.listing[2].ext = LifExt
    /\ Len(results) = 1

-----------------------------------------------------------------------------
(* C17.  For every entry exactly one of the four strategies runs, chosen   *)
(* from the descriptor and the entry's own shape row alone: mosaic when    *)
(* the descriptor has the mosaic axis and the row's tile count is > 0,     *)
(* with depth when the descriptor has the depth axis.  A non-mosaic entry  *)
(* issues only single-plane/scene reads and a mosaic entry only mosaic     *)
(* reads, whatever the earlier entries of the file were.                   *)

\* the strategy the claim gives entry e of file f
StrategyOf(f, e) ==
    LET row == RowOf(f.content.shape, e)
    IN IF has_mosaics(f.content.dims) /\ row.M > 0 THEN "mosaic"
       ELSE IF has_stacks(f.content.dims) THEN "stack"
       ELSE "scene"

\* a container whose table holds every key and whose entries are enumerated
WellFormed(f) ==
    /\ IsCzi(f)
    /\ f.content.shape # <<>>
    /\ CompleteTable(f.content.dims, f.content.shape)

LookupErrors == {"IndexError", "KeyError"}

C17_StrategyFromOwnRow ==
    /\ \A p \in DOMAIN log :
          (IsRead(log[p]) /\ WellFormed(FileOf(log[p].call))) =>
              LET f == FileOf(log[p].call)
              IN /\ (log[p].op = "read_mosaic") = (StrategyOf(f, log[p].e) = "mosaic")
                 /\ (log[p].sel.Z # Absent) = has_stacks(f.content.dims)
                 /\ (log[p].sel.S # Absent) = (StrategyOf(f, log[p].e) # "mosaic")
    /\ (WellFormed(cur) /\ pc \in {"read", "mkdir", "imwrite"}) =>
          loop.kind = StrategyOf(cur, entry_index)
    /\ (WellFormed(cur) /\ Completed) => Outcome \notin LookupErrors

-----------------------------------------------------------------------------
(* C18.  For a non-mosaic entry under a descriptor with the depth axis,    *)
(* get_stack_data issues depthCount x channelCount single-plane reads, one *)
(* per pair (z, c) with selectors (S = entry, Z = z, C = c), depth outer   *)
(* and channel inner, and returns an array whose two leading axes are      *)
(* (depth, channel) of sizes (depthCount, channelCount).  The counts of an *)
(* entry are those of its shape row.                                       *)

\* the selectors of a depth-outer, channel-inner sweep of nz x nc planes
StackGrid(e, nz, nc) ==
    [k \in 1..(nz * nc) |-> [S |-> e, Z |-> (k - 1) \div nc, C |-> (k - 1) % nc]]

\* the reads call c has issued for entry e, in order
ReadsOf(c, e) ==
    SelectSeq(log, LAMBDA ev : IsRead(ev) /\ ev.call = c /\ ev.e = e)

SelectorsOf(c, e) == [k \in DOMAIN ReadsOf(c, e) |-> ReadsOf(c, e)[k].sel]

\* the strategy of the running entry has returned its array
StrategyReturned(kind) == pc = "mkdir" /\ loop.kind = kind /\ WellFormed(cur)

C18_StackReadsAndShape ==
    StrategyReturned("stack") =>
        LET row == RowOf(cur.content.shape, entry_index)
        IN /\ SelectorsOf(CallNo, entry_index) = StackGrid(entry_index, row.Z, row.C)
           /\ \A k \in DOMAIN ReadsOf(CallNo, entry_index) :
                 ReadsOf(CallNo, entry_index)[k].op = "read_image"
           /\ arr[1] = Axis("Z", row.Z)
           /\ arr[2] = Axis("C", row.C)

-----------------------------------------------------------------------------
(* C19.  For a mosaic entry under a descriptor with the depth axis,        *)
(* get_mosaic_data issues channelCount x depthCount tiled-mosaic reads,    *)
(* one per pair (c, z), channel outer and depth inner, and returns an      *)
(* array whose two leading axes are (channel, depth) of sizes              *)
(* (channelCount, depthCount): no swap.                                    *)

\* the selectors of a channel-outer, depth-inner sweep of nc x nz mosaics
MosaicGrid(nc, nz) ==
    [k \in 1..(nc * nz) |->
        [S |-> Absent, Z |-> (k - 1) % nz, C |-> (k - 1) \div nz]]

AllOfOp(c, e, op) ==
    \A k \in DOMAIN ReadsOf(c, e) : ReadsOf(c, e)[k].op = op

C19_MosaicWithDepth ==
    (StrategyReturned("mosaic") /\ has_stacks(cur.content.dims)) =>
        LET row == RowOf(cur.content.shape, entry_index)
        IN /\ SelectorsOf(CallNo, entry_index) = MosaicGrid(row.C, row.Z)
           /\ AllOfOp(CallNo, entry_index, "read_mosaic")
           /\ arr[1] = Axis("C", row.C)
           /\ arr[2] = Axis("Z", row.Z)

C19_Witness ==
    /\ StrategyReturned("mosaic") /\ has_stacks(cur.content.dims)
    /\ entry_index = 1
    /\ RowOf(cur.content.shape, 1).C = 1
    /\ RowOf(cur.content.shape, 1).Z = MaxCount
    /\ RowOf(cur.content.shape, 0).C = MaxCount
    /\ Len(img) = MaxCount

-----------------------------------------------------------------------------
(* C20.  For a mosaic entry under a descriptor without the depth axis,     *)
(* get_mosaic_data obtains the bounding boxes once, issues channelCount    *)
(* tiled-mosaic reads, one per channel and with no depth selector, and     *)
(* returns an array led by a synthetic axis of length 1, with the channel  *)
(* axis of size channelCount second.                                       *)

ChannelSweep(nc) == [k \in 1..nc |-> [S |-> Absent, Z |-> Absent, C |-> k - 1]]

\* the bounding-box fetches of call c for entry e
BoxesOf(c, e) ==
    SelectSeq(log, LAMBDA ev : ev.op = "bboxes" /\ ev.call = c /\ ev.e = e)

C20_MosaicWithoutDepth ==
    (StrategyReturned("mosaic") /\ ~ has_stacks(cur.content.dims)) =>
        LET row == RowOf(cur.content.shape, entry_index)
        IN /\ Len(BoxesOf(CallNo, entry_index)) = 1
           /\ SelectorsOf(CallNo, entry_index) = ChannelSweep(row.C)
           /\ AllOfOp(CallNo, entry_index, "read_mosaic")
           /\ arr[1] = Axis("list", 1)
           /\ arr[2] = Axis("C", row.C)

C20_Witness ==
    /\ StrategyReturned("mosaic") /\ ~ has_stacks(cur.content.dims)
    /\ entry_index = 1
    /\ RowOf(cur.content.shape, 1).C = MaxCount
    /\ RowOf(cur.content.shape, 0).C = 1
    /\ Len(img) = MaxCount

-----------------------------------------------------------------------------
(* C21.  Whichever of the four strategies ran, the array it returned is    *)
(* squeezed and then, if more than 3 axes remain, its two leading axes are *)
(* swapped, before the array is written: the same for all four.            *)

\* squeeze, then swap the leading axes of an array of more than 3 axes
Normalised(a) ==
    IF Len(Squeeze(a)) > 3 THEN SwapAxes(Squeeze(a)) ELSE Squeeze(a)

\* the step from the strategy's return to the write
PostProcessing == pc = "mkdir" /\ pc' = "imwrite" /\ WellFormed(cur)

C21_SameNormalisationForAll ==
    [][PostProcessing => arr' = Normalised(arr)]_vars

-----------------------------------------------------------------------------
(* C22.  For entries with depth count > 1 and channel count > 1 the depth  *)
(* axis and the channel axis of the array handed to the writer are in the  *)
(* same relative order, whether the depth-stack strategy or the            *)
(* mosaic-with-depth strategy assembled the entry.                         *)

\* the depth axis of the array comes before its channel axis
DepthLeads(a) ==
    \E i, j \in DOMAIN a : i < j /\ a[i].ax = "Z" /\ a[j].ax = "C"

\* a write of an entry with several depth planes and several channels
DeepWrite(p) ==
    /\ CziWrite(p)
    /\ WellFormed(FileOf(log[p].call))
    /\ has_stacks(FileOf(log[p].call).content.dims)
    /\ RowOf(FileOf(log[p].call).content.shape, log[p].e).Z > 1
    /\ RowOf(FileOf(log[p].call).content.shape, log[p].e).C > 1
    /\ \E i \in DOMAIN log[p].shape : log[p].shape[i].ax = "Z"
    /\ \E i \in DOMAIN log[p].shape : log[p].shape[i].ax = "C"

C22_SameAxisOrderAcrossStrategies ==
    \A p, q \in DOMAIN log :
        (DeepWrite(p) /\ DeepWrite(q)) =>
            DepthLeads(log[p].shape) = DepthLeads(log[q].shape)

-----------------------------------------------------------------------------
(* C23.  The channel count and the depth count used to assemble entry e    *)
(* are those of shape row e, in the depth-stack strategy as in the mosaic  *)
(* strategies: with rows that declare different counts, entry e issues     *)
(* reads for exactly row e's counts.                                       *)

\* the reads row e's counts call for
OwnReads(f, e) ==
    LET row == RowOf(f.content.shape, e)
    IN row.C * (IF has_stacks(f.content.dims) THEN row.Z ELSE 1)

C23_CountsFromOwnRow ==
    (StrategyReturned("stack") \/ StrategyReturned("mosaic")) =>
        /\ Len(ReadsOf(CallNo, entry_index)) = OwnReads(cur, entry_index)
        /\ \A k \in DOMAIN img :
              /\ img[k].C < RowOf(cur.content.shape, entry_index).C
              /\ has_stacks(cur.content.dims) =>
                    img[k].Z < RowOf(cur.content.shape, entry_index).Z

-----------------------------------------------------------------------------
(* C24.  When the shape row of an entry has no channel key, or no depth    *)
(* key while the strategy iterates depth, the missing count is taken as 1  *)
(* and the entry is assembled and written without error.                   *)

\* only the channel or the depth count of rows is missing
MissingCount(f) ==
    /\ IsCzi(f)
    /\ f.content.shape # <<>>
    /\ \A k \in DOMAIN f.content.shape :
          /\ has_scenes(f.content.dims) => f.content.shape[k].S # Absent
          /\ has_mosaics(f.content.dims) => f.content.shape[k].M # Absent
    /\ ~ CompleteTable(f.content.dims, f.content.shape)

C24_MissingCountIsOne ==
    (Completed /\ MissingCount(cur)) => Outcome # "KeyError"

-----------------------------------------------------------------------------
(* C25.  Within one CZI file the calls of process_czi are ordered entry by *)
(* entry: all reads of entry i, then the creation of the output directory, *)
(* then the one write of entry i, and only then the first read of entry    *)
(* i + 1.  The directory has been created before every write.              *)

SameCall(p, q) == log[p].call = log[q].call

FetchOps == {"bboxes", "read_image", "read_mosaic"}

C25_PerEntryOrder ==
    \A p \in DOMAIN log :
        /\ CziWrite(p) =>
              /\ p > 1 /\ log[p - 1].op = "mkdir"
              /\ SameCall(p - 1, p) /\ log[p - 1].e = log[p].e
              /\ \A q \in DOMAIN log :
                    SameCall(p, q) =>
                        /\ q < p - 1 /\ log[q].e = log[p].e =>
                              log[q].op \in FetchOps /\ log[q].ok
                        /\ q < p => log[q].e <= log[p].e
                        /\ q > p => log[q].e > log[p].e
        /\ (IsRead(log[p]) /\ IsCzi(FileOf(log[p].call))) =>
              \A q \in DOMAIN log :
                  (SameCall(p, q) /\ q < p /\ log[q].e = log[p].e) =>
                      log[q].op \in FetchOps

C25_Witness ==
    \E p \in DOMAIN log :
        /\ CziWrite(p) /\ log[p].e = 1
        /\ Len(log[p].img) = MaxCount
        /\ \E q \in 1..p : log[q].op = "imwrite" /\ SameCall(p, q) /\ log[q].e = 0
        /\ pc = "read" /\ entry_index = 2


-----------------------------------------------------------------------------
(* C26.  After any sequence of setup_logging calls the handlers of the     *)
(* logger "czi2tif" are exactly those of the latest call: when quiet, one  *)
(* null handler and a level above CRITICAL; otherwise at most one console  *)
(* handler and at most one file handler, present as the call asked, each   *)
(* at the requested level, as is the logger.  Nothing of earlier calls     *)
(* remains and the logger never propagates to the root logger.             *)
(* Calls that raise (a log file that cannot be created) are not modelled.  *)

HandlersOfKind(kind) ==
    { k \in DOMAIN logger.handlers : logger.handlers[k].kind = kind }

Expected(kind, wanted) ==
    Cardinality(HandlersOfKind(kind)) = IF wanted THEN 1 ELSE 0

C26_HandlersOfLatestCall ==
    logcalls > 0 =>
        /\ logger.propagate = FALSE
        /\ IF logargs.quiet
           THEN /\ logger.handlers = <<Handler("null", 0, NoPath)>>
                /\ logger.level > Levels.CRITICAL
           ELSE /\ logger.level = NumericLevel(logargs.log_level)
                /\ Expected("null", FALSE)
                /\ Expected("console", logargs.console_output)
                /\ Expected("file", logargs.file_output)
                /\ \A k \in DOMAIN logger.handlers :
                      /\ logger.handlers[k].level = logger.level
                      /\ logger.handlers[k].kind = "file" =>
                            logger.handlers[k].file =
                                IF logargs.log_file = NoPath
                                THEN DefaultLogFile ELSE logargs.log_file

\* a third call in a row that installs a console and a file handler
C26_Witness ==
    /\ logcalls = MaxCalls
    /\ ~ logargs.quiet /\ logargs.console_output /\ logargs.file_output
    /\ Len(logger.handlers) = 2

-----------------------------------------------------------------------------
(* C27.  Every tiled-mosaic read asks for the region of the first declared *)
(* bounding box with scale factor 1 and carries no scene selector; the     *)
(* bounding boxes are fetched once per mosaic entry, before its reads; and *)
(* two mosaic entries of one file whose rows declare the same channel and  *)
(* depth counts issue the same read requests, whatever their indexes.      *)

\* what the reads of call c for entry e asked for, in order
RequestsOf(c, e) ==
    [k \in DOMAIN ReadsOf(c, e) |->
        [op |-> ReadsOf(c, e)[k].op, sel |-> ReadsOf(c, e)[k].sel,
         region |-> ReadsOf(c, e)[k].region, scale |-> ReadsOf(c, e)[k].scale]]

\* get_mosaic_data has been called for entry e of call c
MosaicEntry(c, e) == BoxesOf(c, e) # <<>>

SameCounts(f, d, e) ==
    /\ RowOf(f.content.shape, d).C = RowOf(f.content.shape, e).C
    /\ has_stacks(f.content.dims) =>
          RowOf(f.content.shape, d).Z = RowOf(f.content.shape, e).Z

C27_MosaicRequests ==
    /\ \A p \in DOMAIN log :
          log[p].op = "read_mosaic" =>
              /\ log[p].region = 0
              /\ log[p].scale = 1
              /\ log[p].sel.S = Absent
              /\ Len(BoxesOf(log[p].call, log[p].e)) = 1
              /\ \E q \in 1..(p - 1) :
                    log[q].op = "bboxes" /\ SameCall(p, q) /\ log[q].e = log[p].e
    /\ \A p, q \in DOMAIN log :
          (/\ log[p].op = "imwrite" /\ log[q].op = "imwrite"
           /\ SameCall(p, q)
           /\ IsCzi(FileOf(log[p].call))
           /\ MosaicEntry(log[p].call, log[p].e)
           /\ MosaicEntry(log[q].call, log[q].e)
           /\ WellFormed(FileOf(log[p].call))
           /\ SameCounts(FileOf(log[p].call), log[p].e, log[q].e)) =>
              RequestsOf(log[p].call, log[p].e) = RequestsOf(log[q].call, log[q].e)

\* two entries of one mosaic file, each of MaxCount channels, both written
C27_Witness ==
    \E p, q \in DOMAIN log :
        /\ log[p].op = "imwrite" /\ log[q].op = "imwrite"
        /\ SameCall(p, q) /\ log[p].e = 0 /\ log[q].e = 1
        /\ MosaicEntry(log[p].call, 0) /\ MosaicEntry(log[q].call, 1)
        /\ WellFormed(FileOf(log[p].call))
        /\ SameCounts(FileOf(log[p].call), 0, 1)
        /\ Len(RequestsOf(log[q].call, 1)) = MaxCount
        /\ RequestsOf(log[q].call, 1)[MaxCount].op = "read_mosaic"

-----------------------------------------------------------------------------
(* C28.  Two runs of process_file on the same container and output         *)
(* directory that differ only in ExportParams.bit_depth issue the same     *)
(* container reads, directory creations and writes, in the same order and  *)
(* with the same paths, arrays, resolution and metadata, as long as the    *)
(* container answers both alike; and they end alike.                       *)

\* the calls into the libraries that run c has made, without the run number
EventsOf(c) ==
    LET evs == SelectSeq(log, LAMBDA ev : ev.call = c)
    IN [k \in DOMAIN evs |-> [evs[k] EXCEPT !.call = 0]]

\* what a call asked of the library, whatever the answer
AskedBy(ev) == [ev EXCEPT !.ok = TRUE]

\* how many leading calls of both runs the container has answered alike
AnsweredAlike(E1, E2) ==
    LET both == (DOMAIN E1) \cap (DOMAIN E2)
        differ == { k \in both : E1[k].ok # E2[k].ok }
    IN IF differ = {} THEN Cardinality(both)
       ELSE (CHOOSE k \in differ : \A j \in differ : k <= j) - 1

-----------------------------------------------------------------------------
(* C29.  Within one run of main over a directory, with or without          *)
(* --recursive, no output path is written twice: the writes of two         *)
(* distinct input files never go to the same path of the output directory. *)

C29_NoPathWrittenByTwoFiles ==
    (api = "main" /\ input.isDir) =>
        \A p, q \in DOMAIN log :
            (/\ log[p].op = "imwrite" /\ log[q].op = "imwrite"
             /\ log[p].call # log[q].call) =>
                log[p].path # log[q].path

-----------------------------------------------------------------------------
(* C30.  When the metadata has an X distance record and no Y distance      *)
(* record, get_resolution raises instead of returning the default          *)
(* (1, 1, 1) or a partial vector (an AttributeError when the X record      *)
(* converts), and process_czi ends that file having done nothing but open  *)
(* it: no read, no directory creation, no write.                           *)

XWithoutY(f) ==
    IsCzi(f) /\ f.content.meta.X # NoElem /\ f.content.meta.Y = NoElem

C30_XWithoutYRaises ==
    XWithoutY(cur) =>
        /\ pc # "classify" /\ ~ Enumerated
        /\ Completed =>
              /\ OnlyOpened(Len(results))
              /\ Outcome \in ResolutionErrors \cup {"OpenError"}
              /\ ( /\ CallLog(Len(results))[1].ok
                   /\ ConvertXY(cur.content.meta.X).exc = "none" ) =>
                    Outcome = "AttributeError"

C30_Witness ==
    /\ Completed /\ XWithoutY(cur)
    /\ cur.content.meta.X = Num(1000)
    /\ CallLog(Len(results))[1].ok
    /\ Outcome = "AttributeError"
    /\ OnlyOpened(Len(results))

====
